---- MODULE Spec2Model ----
(***************************************************************************)
(* A model of src/src/simple_cnn.py (ARA-CNN): the restart-supervised      *)
(* training cycle train_cycle with its two RestartCallback monitors, the   *)
(* stratified 70/30 split, the multi-output batch adapter multioutput_gen  *)
(* and the two residual-network builders.                                  *)
(*                                                                         *)
(* Floating-point metrics (losses, accuracies) are integers in units of    *)
(* one tenth: 20 is 2.0, 8 is 0.8.  NaN is a metric value of its own.      *)
(***************************************************************************)
EXTENDS Integers, Sequences, FiniteSets, TLC

VARIABLES
    pc,           \* control point of train_cycle (lines 317-348)
    model,        \* the local `model`: the network instance built last
    history,      \* the History of the running / returned fit_generator call
    restarter_1,  \* RestartCallback instance of lines 298-301
    restarter_2,  \* RestartCallback instance of lines 303-306
    checkpoint,   \* the file output_dir/extended_model_<step>.h5
    eval_result,  \* the local `eval_result` (line 330)
    metrics_file, \* the file output_dir/extended_model_<step>.txt
    discarded,    \* record of the Attempts the retry loop has thrown away
    io_log,       \* record of evaluate_generator calls and metrics-file writes
    split_pc,      \* control point of the split (lines 267-286)
    loop_i,        \* the split's loop counter: `i`, then the items done
    train_y,       \* the label array `train_y`
    valid_y,       \* the label array `valid_y`
    label_indices, \* the dict `label_indices`, as its items in order
    train_indices, \* the list `train_indices`
    val_indices,   \* the list `val_indices`
    gen_pc,        \* where the multioutput_gen generator stands
    gen_source,    \* the batches its upstream `gen` yields, in order
    gen_pos,       \* how many of them have been pulled from `gen`
    gen_xy,        \* the generator frame's `x, y` (none before the first pull)
    nb_of_outputs, \* the argument `nb_of_outputs`
    gen_requests,  \* next() calls the consumer has made on the generator
    gen_out,       \* the adapted batches yielded so far
    net_pc,        \* control point of the network builder being run
    net_call,      \* which builder is called and with which arguments
    nb_first,      \* parameter nb_of_residual_blocks_in_first_path
    nb_second,     \* parameter nb_of_residual_blocks_in_second_path
    blocks_done,   \* iterations done of the running `for _ in range(...)`
    layers,        \* the layer graph built so far; a tensor is a position
    acc_tensor,    \* the local `acc_tensor`
    aux_output,    \* the local `aux_output`
    main_output,   \* the local `main_output`
    net_model      \* the Model returned: its input and output tensors

\* The state of the retry loop and what follows it.
trainVars == <<pc, model, history, restarter_1, restarter_2, checkpoint,
               eval_result, metrics_file, discarded, io_log>>

\* The state of the stratified split.
splitVars == <<split_pc, loop_i, train_y, valid_y, label_indices, train_indices,
               val_indices>>

\* The state of one multioutput_gen generator and its consumer.
genVars == <<gen_pc, gen_source, gen_pos, gen_xy, nb_of_outputs,
             gen_requests, gen_out>>

\* The state of one run of a network builder.
netVars == <<net_pc, net_call, nb_first, nb_second, blocks_done, layers,
             acc_tensor, aux_output, main_output, net_model>>

vars == <<trainVars, splitVars, genVars, netVars>>

----------------------------------------------------------------------------
(* Bounds of the model *)

\* The retry loop has no limit; the model builds at most this many models.
MaxAttempts == 3
\* Test accuracies returned by evaluate_generator range over 0..MaxAcc tenths.
MaxAcc == 1
\* Label arrays are a base array of at most MaxLen labels out of 0..MaxLabel,
\* repeated up to MaxRep times.
MaxLen == 3
MaxLabel == 1
MaxRep == 30
\* The upstream generator yields at most MaxBatches batches, of image
\* batches 1..MaxImage, and the adapter is asked for 0..MaxOutputs outputs.
MaxBatches == 3
MaxImage == 2
MaxOutputs == 2
\* The builders are called with 0..MaxBlocks residual blocks per path.
MaxBlocks == 4

----------------------------------------------------------------------------
(* Constants of train_cycle (lines 230-237) *)

THRESHOLD_LOSS_VALUE_1 == 20
THRESHOLD_LOSS_VALUE_2 == 8
RESTARTER_PATIENCE_1 == 10
RESTARTER_PATIENCE_2 == 100
EPOCHS == 100

----------------------------------------------------------------------------
(* Floating-point values *)

\* float('nan'), which a diverged loss takes.
NaN == -1

\* a <= b on floats: every comparison with NaN is false.
FloatLe(a, b) == a # NaN /\ b # NaN /\ a <= b

\* a + b on floats (NaN propagates).
FloatAdd(a, b) == IF a = NaN \/ b = NaN THEN NaN ELSE a + b

----------------------------------------------------------------------------
(* RestartCallback (lines 205-226) *)

\* __init__
RestartCallback(check_epoch_nb, monitor, value) ==
    [check_epoch_nb |-> check_epoch_nb, monitor |-> monitor,
     value |-> value, stopped |-> FALSE]

\* on_train_begin that leaves the flag as the last Attempt left it.
on_train_begin_NoReset(self) == self

\* on_train_begin
on_train_begin(self) == [self EXCEPT !.stopped = FALSE]

\* on_epoch_end with `<` for `<=`: a metric equal to the threshold triggers.
on_epoch_end_strict(self, mdl, epoch, logs) ==
    IF (epoch + 1) # self.check_epoch_nb
    THEN [self |-> self, model |-> mdl]
    ELSE IF logs[self.monitor] # NaN /\ logs[self.monitor] < self.value
    THEN [self |-> self, model |-> mdl]
    ELSE [self |-> [self EXCEPT !.stopped = TRUE],
          model |-> [mdl EXCEPT !.stop_training = TRUE]]

\* on_epoch_end that sets the flag but does not ask the model to stop.
on_epoch_end_NoStop(self, mdl, epoch, logs) ==
    IF (epoch + 1) # self.check_epoch_nb
    THEN [self |-> self, model |-> mdl]
    ELSE IF FloatLe(logs[self.monitor], self.value)
    THEN [self |-> self, model |-> mdl]
    ELSE [self |-> [self EXCEPT !.stopped = TRUE], model |-> mdl]

\* on_epoch_end that compares Keras's zero-based index itself with the
\* target epoch.
on_epoch_end_ZeroBased(self, mdl, epoch, logs) ==
    IF epoch # self.check_epoch_nb
    THEN [self |-> self, model |-> mdl]
    ELSE IF FloatLe(logs[self.monitor], self.value)
    THEN [self |-> self, model |-> mdl]
    ELSE [self |-> [self EXCEPT !.stopped = TRUE],
          model |-> [mdl EXCEPT !.stop_training = TRUE]]

\* on_epoch_end with `<` for `!=`: the metric is checked at the end of the
\* target epoch and of every epoch after it.
on_epoch_end_FromEpoch(self, mdl, epoch, logs) ==
    IF (epoch + 1) < self.check_epoch_nb
    THEN [self |-> self, model |-> mdl]
    ELSE IF FloatLe(logs[self.monitor], self.value)
    THEN [self |-> self, model |-> mdl]
    ELSE [self |-> [self EXCEPT !.stopped = TRUE],
          model |-> [mdl EXCEPT !.stop_training = TRUE]]

\* on_epoch_end: the callback and its model (self.model) after the call.
\* `epoch` is Keras's zero-based epoch index.
on_epoch_end(self, mdl, epoch, logs) ==
    IF (epoch + 1) # self.check_epoch_nb
    THEN [self |-> self, model |-> mdl]
    ELSE IF FloatLe(logs[self.monitor], self.value)
    THEN [self |-> self, model |-> mdl]
    ELSE [self |-> [self EXCEPT !.stopped = TRUE],
          model |-> [mdl EXCEPT !.stop_training = TRUE]]

----------------------------------------------------------------------------
(* What one epoch of fit_generator reports *)

\* Main-head training losses an epoch may end with: each threshold, the
\* value one tenth above it, and NaN.
LossValues ==
    {THRESHOLD_LOSS_VALUE_2, THRESHOLD_LOSS_VALUE_2 + 1,
     THRESHOLD_LOSS_VALUE_1, THRESHOLD_LOSS_VALUE_1 + 1, NaN}

\* The epochs (1-based) at which the loss curve may jump: the first, and
\* each monitor's check epoch and the epoch after it.  Between them the loss
\* stays where it was, so the epoch before a check epoch can differ from it.
ChangeEpochs ==
    {1, RESTARTER_PATIENCE_1, RESTARTER_PATIENCE_1 + 1,
     RESTARTER_PATIENCE_2, RESTARTER_PATIENCE_2 + 1}

\* The logs dict of an epoch whose main-head training loss is l: the ten
\* series Keras records for a two-head model with validation data.
EpochLogs(l) ==
    [loss                 |-> FloatAdd(l, 1),
     main_output_loss     |-> l,
     aux_output_loss      |-> FloatAdd(l, 2),
     main_output_acc      |-> 7,
     aux_output_acc       |-> 6,
     val_loss             |-> FloatAdd(l, 4),
     val_main_output_loss |-> FloatAdd(l, 3),
     val_aux_output_loss  |-> FloatAdd(l, 5),
     val_main_output_acc  |-> 5,
     val_aux_output_acc   |-> 4]

\* evaluate_generator's result list for a two-head model compiled with
\* metrics ["acc", single_class_accuracy(0)]: loss, main loss, aux loss,
\* main acc, main class-0 acc, aux acc, aux class-0 acc.  Python's
\* eval_result[3] and eval_result[5] are entries 4 and 6 here.
EvalResults ==
    {<<3, 2, 9, a, 10, b, 0>> : a \in 0..MaxAcc, b \in 0..MaxAcc}

----------------------------------------------------------------------------
(* The metrics file's text (lines 333-348) *)

\* "%d" % n
FormatD(n) == n

\* "%f" % v: six decimals.  v is in tenths, so the text is the integer part
\* and the tenths digit followed by five zeros; NaN prints as "nan".
FormatF(v) ==
    IF v = NaN THEN [nan |-> TRUE, int |-> 0, frac |-> 0]
    ELSE [nan |-> FALSE, int |-> v \div 10, frac |-> (v % 10) * 100000]

\* The line with the zero-based epoch index written as it is.
MetricsLine_ZeroBased(epoch_nb, hist, eval) ==
    <<FormatD(epoch_nb),
      FormatF(hist[epoch_nb + 1]["loss"]),
      FormatF(hist[epoch_nb + 1]["main_output_loss"]),
      FormatF(hist[epoch_nb + 1]["aux_output_loss"]),
      FormatF(hist[epoch_nb + 1]["main_output_acc"]),
      FormatF(hist[epoch_nb + 1]["aux_output_acc"]),
      FormatF(hist[epoch_nb + 1]["val_loss"]),
      FormatF(hist[epoch_nb + 1]["val_main_output_loss"]),
      FormatF(hist[epoch_nb + 1]["val_aux_output_loss"]),
      FormatF(hist[epoch_nb + 1]["val_main_output_acc"]),
      FormatF(hist[epoch_nb + 1]["val_aux_output_acc"]),
      FormatF(eval[4]),
      FormatF(eval[6])>>

\* The line written for zero-based epoch_nb (lines 335-348).  hist[i] is
\* the logs of the i-th epoch, i.e. history.history[key][i - 1].
MetricsLine(epoch_nb, hist, eval) ==
    <<FormatD(epoch_nb + 1),
      FormatF(hist[epoch_nb + 1]["loss"]),
      FormatF(hist[epoch_nb + 1]["main_output_loss"]),
      FormatF(hist[epoch_nb + 1]["aux_output_loss"]),
      FormatF(hist[epoch_nb + 1]["main_output_acc"]),
      FormatF(hist[epoch_nb + 1]["aux_output_acc"]),
      FormatF(hist[epoch_nb + 1]["val_loss"]),
      FormatF(hist[epoch_nb + 1]["val_main_output_loss"]),
      FormatF(hist[epoch_nb + 1]["val_aux_output_loss"]),
      FormatF(hist[epoch_nb + 1]["val_main_output_acc"]),
      FormatF(hist[epoch_nb + 1]["val_aux_output_acc"]),
      FormatF(eval[4]),
      FormatF(eval[6])>>

----------------------------------------------------------------------------
(* train_cycle, lines 292-348 *)

NoModel == [id |-> 0, trained |-> 0, stop_training |-> FALSE]
NoFile == [exists |-> FALSE, lines |-> <<>>]
NoCheckpoint == [exists |-> FALSE, model |-> 0, epoch |-> 0]

\* The ordinal of the current Attempt.
Attempt == Len(discarded) + 1

\* State on reaching the retry loop (after lines 292-315).
TrainInit ==
    /\ pc = "build"
    /\ model = NoModel
    /\ history = <<>>
    /\ restarter_1 = RestartCallback(RESTARTER_PATIENCE_1, "main_output_loss",
                                     THRESHOLD_LOSS_VALUE_1)
    /\ restarter_2 = RestartCallback(RESTARTER_PATIENCE_2, "main_output_loss",
                                     THRESHOLD_LOSS_VALUE_2)
    /\ checkpoint = NoCheckpoint
    /\ eval_result = <<>>
    /\ metrics_file = NoFile
    /\ discarded = <<>>
    /\ io_log = <<>>

\* The retry loop is not running.
TrainIdle ==
    /\ pc = "idle"
    /\ model = NoModel
    /\ history = <<>>
    /\ restarter_1 = RestartCallback(RESTARTER_PATIENCE_1, "main_output_loss",
                                     THRESHOLD_LOSS_VALUE_1)
    /\ restarter_2 = RestartCallback(RESTARTER_PATIENCE_2, "main_output_loss",
                                     THRESHOLD_LOSS_VALUE_2)
    /\ checkpoint = NoCheckpoint
    /\ eval_result = <<>>
    /\ metrics_file = NoFile
    /\ discarded = <<>>
    /\ io_log = <<>>

\* The model built once, before the loop: later Attempts go on with it.
BuildModel_Reuse ==
    /\ pc = "build"
    /\ Attempt <= MaxAttempts
    /\ model' = IF model = NoModel
                THEN [id |-> Attempt, trained |-> 0, stop_training |-> FALSE]
                ELSE model
    /\ pc' = "train_begin"
    /\ UNCHANGED <<history, restarter_1, restarter_2, checkpoint,
                   eval_result, metrics_file, discarded, io_log,
                   splitVars, genVars, netVars>>

\* Line 318: model = build_simple_cnn_model_with_dropout().
BuildModel ==
    /\ pc = "build"
    /\ Attempt <= MaxAttempts
    /\ model' = [id |-> Attempt, trained |-> 0, stop_training |-> FALSE]
    /\ pc' = "train_begin"
    /\ UNCHANGED <<history, restarter_1, restarter_2, checkpoint,
                   eval_result, metrics_file, discarded, io_log,
                   splitVars, genVars, netVars>>

\* Line 319, entry of fit_generator: stop_training is cleared and every
\* callback's on_train_begin runs (the History starts empty).
TrainBegin ==
    /\ pc = "train_begin"
    /\ model' = [model EXCEPT !.stop_training = FALSE]
    /\ restarter_1' = on_train_begin(restarter_1)
    /\ restarter_2' = on_train_begin(restarter_2)
    /\ history' = <<>>
    /\ pc' = "fit"
    /\ UNCHANGED <<checkpoint, eval_result, metrics_file, discarded, io_log,
                   splitVars, genVars, netVars>>

\* A checkpointer with period=2: it saves at the end of every second epoch.
ModelCheckpoint_on_epoch_end_Period2(mdl, epoch) ==
    IF (epoch + 1) % 2 = 0
    THEN [exists |-> TRUE, model |-> mdl.id, epoch |-> epoch + 1]
    ELSE checkpoint

\* ModelCheckpoint.on_epoch_end (line 295: every epoch, one path).
ModelCheckpoint_on_epoch_end(mdl, epoch) ==
    [exists |-> TRUE, model |-> mdl.id, epoch |-> epoch + 1]

\* One epoch of fit_generator and its epoch-end callbacks in the order of
\* line 325: checkpointer, (reducer, tensorboard,) restarter_1, restarter_2,
\* then Keras's History.
EpochEnd ==
    /\ pc = "fit"
    /\ ~model.stop_training
    /\ Len(history) < EPOCHS
    /\ \E l \in LossValues :
         /\ IF (Len(history) + 1) \in ChangeEpochs THEN TRUE
            ELSE l = history[Len(history)]["main_output_loss"]
         /\ LET epoch == Len(history)
                logs == EpochLogs(l)
                m0 == [model EXCEPT !.trained = @ + 1]
                r1 == on_epoch_end(restarter_1, m0, epoch, logs)
                r2 == on_epoch_end(restarter_2, r1.model, epoch, logs)
            IN  /\ checkpoint' = ModelCheckpoint_on_epoch_end(m0, epoch)
                /\ restarter_1' = r1.self
                /\ restarter_2' = r2.self
                /\ model' = r2.model
                /\ history' = Append(history, logs)
    /\ UNCHANGED <<pc, eval_result, metrics_file, discarded, io_log,
                   splitVars, genVars, netVars>>

\* fit_generator returns: the epoch budget is used up or stop_training is set.
FitReturn ==
    /\ pc = "fit"
    /\ model.stop_training \/ Len(history) = EPOCHS
    /\ pc' = "check"
    /\ UNCHANGED <<model, history, restarter_1, restarter_2, checkpoint,
                   eval_result, metrics_file, discarded, io_log,
                   splitVars, genVars, netVars>>

\* "Retry if either monitor triggered": break only when neither flag is set.
BreakCondition_Either(r1, r2) == ~(r1.stopped \/ r2.stopped)

\* A retry limit: the loop is also left once a second Attempt has run.
BreakCondition_Limit(r1, r2) ==
    (~r1.stopped \/ r2.stopped) \/ Len(discarded) >= 1

\* The exit test with `and` for `or`.
BreakCondition_And(r1, r2) == ~r1.stopped /\ r2.stopped

\* Line 327: if not restarter_1.stopped or restarter_2.stopped: break
BreakCondition(r1, r2) == ~r1.stopped \/ r2.stopped

\* The current Attempt as the retry decision sees it.
AttemptRecord ==
    [model |-> model.id, epochs |-> Len(history),
     stopped_1 |-> restarter_1.stopped, stopped_2 |-> restarter_2.stopped]

\* The test evaluation moved into the loop, before the retry decision.
CheckRestart_EvalInLoop ==
    /\ pc = "check"
    /\ \E r \in EvalResults : eval_result' = r
    /\ io_log' = Append(io_log, [op |-> "evaluate", model |-> model.id])
    /\ IF BreakCondition(restarter_1, restarter_2)
       THEN pc' = "evaluate" /\ discarded' = discarded
       ELSE pc' = "build" /\ discarded' = Append(discarded, AttemptRecord)
    /\ UNCHANGED <<model, history, restarter_1, restarter_2, checkpoint,
                   metrics_file,
                   splitVars, genVars, netVars>>

\* Lines 327-328: leave the loop or go round it again.
CheckRestart ==
    /\ pc = "check"
    /\ IF BreakCondition(restarter_1, restarter_2)
       THEN pc' = "evaluate" /\ discarded' = discarded
       ELSE pc' = "build" /\ discarded' = Append(discarded, AttemptRecord)
    /\ UNCHANGED <<model, history, restarter_1, restarter_2, checkpoint,
                   eval_result, metrics_file, io_log,
                   splitVars, genVars, netVars>>

\* Lines 330-331: eval_result = model.evaluate_generator(...).
Evaluate ==
    /\ pc = "evaluate"
    /\ \E r \in EvalResults : eval_result' = r
    /\ io_log' = Append(io_log, [op |-> "evaluate", model |-> model.id])
    /\ pc' = "write"
    /\ UNCHANGED <<model, history, restarter_1, restarter_2, checkpoint,
                   metrics_file, discarded,
                   splitVars, genVars, netVars>>

\* Lines 333-348: the metrics file is opened for writing (truncated) and one
\* line is written per entry of history.history["loss"].
WriteMetrics ==
    /\ pc = "write"
    /\ metrics_file' =
         [exists |-> TRUE,
          lines  |-> [i \in 1..Len(history) |->
                         MetricsLine(i - 1, history, eval_result)]]
    /\ io_log' = Append(io_log, [op |-> "write", model |-> model.id])
    /\ pc' = "done"
    /\ UNCHANGED <<model, history, restarter_1, restarter_2, checkpoint,
                   eval_result, discarded,
                   splitVars, genVars, netVars>>

----------------------------------------------------------------------------
(* IEEE-754 double arithmetic of line 277: math.floor(0.7 * len(value)) *)

\* Bits of a natural number, least significant first, no leading zero.
RECURSIVE NatBits(_)
NatBits(k) == IF k = 0 THEN <<>> ELSE <<k % 2>> \o NatBits(k \div 2)

\* The natural number with the given bits, least significant first.
RECURSIVE BitsNat(_)
BitsNat(b) == IF b = <<>> THEN 0 ELSE b[1] + 2 * BitsNat(Tail(b))

\* b without the zero bits at its most significant end.
RECURSIVE StripZeros(_)
StripZeros(b) ==
    IF b = <<>> \/ b[Len(b)] = 1 THEN b
    ELSE StripZeros(SubSeq(b, 1, Len(b) - 1))

\* The bits of b * k + c, for bits b and naturals k, c.
RECURSIVE MulBits(_, _, _)
MulBits(b, k, c) ==
    IF b = <<>> THEN NatBits(c)
    ELSE <<(b[1] * k + c) % 2>> \o MulBits(Tail(b), k, (b[1] * k + c) \div 2)

\* The bits of b + 1.
RECURSIVE IncBits(_)
IncBits(b) ==
    IF b = <<>> THEN <<1>>
    ELSE IF b[1] = 0 THEN <<1>> \o Tail(b)
    ELSE <<0>> \o IncBits(Tail(b))

\* A double is sig * 2^exp with a significand of at most 53 bits.
\* The literal 0.7 is the double 0x1.6666666666666p-1, that is
\* 0x16666666666666 * 2^-53, a little below seven tenths.
Double_0_7 ==
    [sig |-> [i \in 1..53 |-> IF i = 53 \/ i % 4 \in {2, 3} THEN 1 ELSE 0],
     exp |-> -53]

\* The exact value bits * 2^exp rounded to a double: round to nearest, ties
\* to even.
RoundToDouble(bits, exp) ==
    LET b == StripZeros(bits)
        d == Len(b) - 53
    IN  IF d <= 0 THEN [sig |-> b, exp |-> exp]
        ELSE LET kept   == SubSeq(b, d + 1, Len(b))
                 guard  == b[d]
                 sticky == \E i \in 1..(d - 1) : b[i] = 1
                 up     == guard = 1 /\ (sticky \/ kept[1] = 1)
             IN  [sig |-> IF up THEN IncBits(kept) ELSE kept, exp |-> exp + d]

\* x * k for a double x and an int k (exactly representable as a double).
FloatMulInt(x, k) == RoundToDouble(MulBits(x.sig, k, 0), x.exp)

\* math.floor(x) for a double x >= 0.
math_floor(x) ==
    IF x.exp >= 0 THEN BitsNat(x.sig) * (2 ^ x.exp)
    ELSE IF -x.exp >= Len(x.sig) THEN 0
    ELSE BitsNat(SubSeq(x.sig, 1 - x.exp, Len(x.sig)))

----------------------------------------------------------------------------
(* The stratified split of train_cycle, lines 267-286 *)

\* List positions are 1-based here; the indices the code stores are the
\* zero-based numpy indices, so train_y[i] of the code is array[i + 1].

\* key in d, for a dict d given as the sequence of its items.
DictHas(d, key) == \E j \in 1..Len(d) : d[j].key = key

\* d[key] = value (a new key goes to the end: dicts keep insertion order).
DictSet(d, key, value) ==
    IF DictHas(d, key)
    THEN [j \in 1..Len(d) |->
             IF d[j].key = key THEN [key |-> key, value |-> value] ELSE d[j]]
    ELSE Append(d, [key |-> key, value |-> value])

\* d[key]
DictGet(d, key) == d[CHOOSE j \in 1..Len(d) : d[j].key = key].value

\* value[:train_size] and value[train_size:]
SliceTo(value, k) == SubSeq(value, 1, k)
SliceFrom(value, k) == SubSeq(value, k + 1, Len(value))

\* Line 277
train_size(value) == math_floor(FloatMulInt(Double_0_7, Len(value)))

\* array[indices] for a list of zero-based indices.
Take(array, indices) == [j \in 1..Len(indices) |-> array[indices[j] + 1]]

\* Label arrays the split is run on.
Labels == 0..MaxLabel
BaseArrays == UNION {[1..k -> Labels] : k \in 0..MaxLen}
Repeat(b, r) == [i \in 1..(Len(b) * r) |-> b[((i - 1) % Len(b)) + 1]]
LabelArrays == {Repeat(b, r) : b \in BaseArrays, r \in 1..MaxRep}

\* No split is running.
SplitIdle ==
    /\ split_pc = "idle"
    /\ loop_i = 0
    /\ train_y = <<>>
    /\ valid_y = <<>>
    /\ label_indices = <<>>
    /\ train_indices = <<>>
    /\ val_indices = <<>>

\* After line 256: the labels are loaded; line 267: label_indices = {}.
SplitInit ==
    /\ split_pc = "group"
    /\ loop_i = 0
    /\ train_y \in LabelArrays
    /\ valid_y = <<>>
    /\ label_indices = <<>>
    /\ train_indices = <<>>
    /\ val_indices = <<>>

\* Lines 268-272: one iteration of the loop over i.
GroupStep ==
    /\ split_pc = "group"
    /\ loop_i < Len(train_y)
    /\ LET key == train_y[loop_i + 1]
           d1  == IF ~DictHas(label_indices, key)
                  THEN DictSet(label_indices, key, <<>>)
                  ELSE label_indices
       IN  label_indices' = DictSet(d1, key, Append(DictGet(d1, key), loop_i))
    /\ loop_i' = loop_i + 1
    /\ UNCHANGED <<split_pc, train_y, valid_y, train_indices, val_indices,
                   trainVars, genVars, netVars>>

\* Lines 274-275: the loop over i is over; train_indices = val_indices = [].
GroupDone ==
    /\ split_pc = "group"
    /\ loop_i >= Len(train_y)
    /\ train_indices' = <<>>
    /\ val_indices' = <<>>
    /\ loop_i' = 0
    /\ split_pc' = "split"
    /\ UNCHANGED <<train_y, valid_y, label_indices, trainVars, genVars, netVars>>

\* Lines 276-281: one iteration of the loop over label_indices.items();
\* loop_i counts the items done.
SplitStep ==
    /\ split_pc = "split"
    /\ loop_i < Len(label_indices)
    /\ LET value == label_indices[loop_i + 1].value
       IN  /\ train_indices' =
                 train_indices \o SliceTo(value, train_size(value))
           /\ val_indices' =
                 val_indices \o SliceFrom(value, train_size(value))
    /\ loop_i' = loop_i + 1
    /\ UNCHANGED <<split_pc, train_y, valid_y, label_indices, trainVars, genVars, netVars>>

\* Lines 283-286, once the loop over the items is over.
SelectSubsets ==
    /\ split_pc = "split"
    /\ loop_i >= Len(label_indices)
    /\ valid_y' = Take(train_y, val_indices)
    /\ train_y' = Take(train_y, train_indices)
    /\ split_pc' = "done"
    /\ UNCHANGED <<loop_i, label_indices, train_indices, val_indices,
                   trainVars, genVars, netVars>>

----------------------------------------------------------------------------
(* multioutput_gen, lines 194-202 *)

\* Default of the parameter nb_of_outputs (line 194).
nb_of_outputs_default == 2

\* [y] * n with one entry too few.
ListRepeat_Short(y, n) == [j \in 1..(n - 1) |-> y]

\* [y] * n
ListRepeat(y, n) == [j \in 1..n |-> y]

\* The (images, labels) batches an upstream generator may yield; a label
\* batch here holds one label.
UpstreamBatches == {<<x, <<l>>>> : x \in 1..MaxImage, l \in Labels}

\* No generator exists.
GenIdle ==
    /\ gen_pc = "idle"
    /\ gen_source = <<>>
    /\ gen_pos = 0
    /\ gen_xy = <<>>
    /\ nb_of_outputs = nb_of_outputs_default
    /\ gen_requests = 0
    /\ gen_out = <<>>

\* multioutput_gen(gen, nb_of_outputs) has been called: a generator object
\* exists and none of its body has run.
GenInit ==
    /\ gen_pc = "suspended"
    /\ gen_source \in UNION {[1..k -> UpstreamBatches] : k \in 0..MaxBatches}
    /\ gen_pos = 0
    /\ gen_xy = <<>>
    /\ nb_of_outputs \in (0..MaxOutputs) \cup {nb_of_outputs_default}
    /\ gen_requests = 0
    /\ gen_out = <<>>

\* The consumer calls next() on the generator, which resumes.
GenRequest ==
    /\ gen_pc = "suspended"
    /\ gen_requests' = gen_requests + 1
    /\ gen_pc' = "resumed"
    /\ UNCHANGED <<gen_source, gen_pos, gen_xy, nb_of_outputs, gen_out,
                   trainVars, splitVars, netVars>>

\* Line 201, `for x, y in gen`: the next upstream batch is pulled and bound
\* to x, y; when `gen` is exhausted the loop and the generator end.
GenPull ==
    /\ gen_pc = "resumed"
    /\ IF gen_pos < Len(gen_source)
       THEN /\ gen_xy' = <<gen_source[gen_pos + 1]>>
            /\ gen_pos' = gen_pos + 1
            /\ gen_pc' = "yield"
       ELSE /\ gen_pc' = "finished"
            /\ UNCHANGED <<gen_xy, gen_pos>>
    /\ UNCHANGED <<gen_source, nb_of_outputs, gen_requests, gen_out,
                   trainVars, splitVars, netVars>>

\* Line 202: yield x, [y] * nb_of_outputs; the generator suspends.
GenYield ==
    /\ gen_pc = "yield"
    /\ gen_out' = Append(gen_out,
                         <<gen_xy[1][1], ListRepeat(gen_xy[1][2], nb_of_outputs)>>)
    /\ gen_pc' = "suspended"
    /\ UNCHANGED <<gen_source, gen_pos, gen_xy, nb_of_outputs, gen_requests,
                   trainVars, splitVars, netVars>>

----------------------------------------------------------------------------
(* The network builders, lines 23-191 *)

\* Defaults of build_simple_cnn_model_with_dropout (lines 25, 27, 28) and
\* of build_simple_cnn_model (lines 148, 149).
dropout_layer_default == 32
dropout_nb_of_residual_blocks_in_first_path == 4
dropout_nb_of_residual_blocks_in_second_path == 3
plain_nb_of_residual_blocks_in_first_path == 4
plain_nb_of_residual_blocks_in_second_path == 4
\* Units of each head's last Dense layer (lines 107, 120).
nb_of_classes == 8

\* An argument the call leaves out.
Omitted == -1

\* A layer applied to input tensors; its output tensor is its position in
\* `layers`.  units and activation are those of a Dense layer, freeze_batch
\* that of a convolution block.
Layer(op, inputs, name, units, activation) ==
    [op |-> op, inputs |-> inputs, name |-> name, units |-> units,
     activation |-> activation, freeze_batch |-> FALSE]

\* The first-path parameter bound to the second path's default.
BindFirstPath_Swapped(call) ==
    IF call.first # Omitted THEN call.first
    ELSE IF call.builder = "dropout"
    THEN dropout_nb_of_residual_blocks_in_second_path
    ELSE plain_nb_of_residual_blocks_in_second_path

\* nb_of_residual_blocks_in_first_path as the call binds it (lines 27, 148).
BindFirstPath(call) ==
    IF call.first # Omitted THEN call.first
    ELSE IF call.builder = "dropout"
    THEN dropout_nb_of_residual_blocks_in_first_path
    ELSE plain_nb_of_residual_blocks_in_first_path

\* nb_of_residual_blocks_in_second_path as the call binds it (lines 28, 149).
BindSecondPath(call) ==
    IF call.second # Omitted THEN call.second
    ELSE IF call.builder = "dropout"
    THEN dropout_nb_of_residual_blocks_in_second_path
    ELSE plain_nb_of_residual_blocks_in_second_path

\* build_stem_cnn_block (of model_utils) applied to tensor t: one block of
\* convolution, normalisation, activation and optional pooling.
StemCnnBlock(t, pooling, freeze_batch) ==
    [Layer(IF pooling THEN "stem_cnn_block_pooling" ELSE "stem_cnn_block",
           <<t>>, "", 0, "") EXCEPT !.freeze_batch = freeze_batch]

\* A residual block without its skip connection: the convolution block on
\* t, then add([residual_tensor, residual_tensor]).
ResidualBlock_NoSkip(g, t, freeze_batch) ==
    g \o <<StemCnnBlock(t, FALSE, freeze_batch),
           Layer("add", <<Len(g) + 1, Len(g) + 1>>, "", 0, "")>>

\* create_residual_block(pooling=False)(t) on graph g (lines 134-142): the
\* convolution block on t, then add([t, residual_tensor]).
ResidualBlock(g, t, freeze_batch) ==
    g \o <<StemCnnBlock(t, FALSE, freeze_batch),
           Layer("add", <<t, Len(g) + 1>>, "", 0, "")>>

\* create_dropout_output(...)(t) on graph g (lines 100-108).
DropoutOutput(g, t, output_name) ==
    g \o <<Layer("GlobalAveragePooling2D", <<t>>, "", 0, ""),
           Layer("Dense", <<Len(g) + 1>>, "", dropout_layer_default, ""),
           Layer("LeakyReLU", <<Len(g) + 2>>, "", 0, ""),
           Layer("Dropout", <<Len(g) + 3>>, "", 0, ""),
           Layer("Dense", <<Len(g) + 4>>, output_name, nb_of_classes,
                 "softmax")>>

\* create_output(output_name)(t) on graph g (lines 118-121).
PlainOutput(g, t, output_name) ==
    g \o <<Layer("GlobalAveragePooling2D", <<t>>, "", 0, ""),
           Layer("Dense", <<Len(g) + 1>>, output_name, nb_of_classes,
                 "softmax")>>

\* The head of the builder that is running.
Output(g, t, output_name) ==
    IF net_call.builder = "dropout" THEN DropoutOutput(g, t, output_name)
    ELSE PlainOutput(g, t, output_name)

\* The calls made: either builder, each block count given or left out.
\* freeze_batch only exists in the dropout variant.
NetCalls ==
    {c \in [builder : {"plain", "dropout"},
            first : (0..MaxBlocks) \cup {Omitted},
            second : (0..MaxBlocks) \cup {Omitted},
            freeze_batch : BOOLEAN] :
        c.builder = "plain" => ~c.freeze_batch}

NoNetModel == [input |-> 0, outputs |-> <<>>]

\* No builder is running.
NetIdle ==
    /\ net_pc = "idle"
    /\ net_call = [builder |-> "dropout", first |-> Omitted,
                   second |-> Omitted, freeze_batch |-> FALSE]
    /\ nb_first = 0
    /\ nb_second = 0
    /\ blocks_done = 0
    /\ layers = <<>>
    /\ acc_tensor = 0
    /\ aux_output = 0
    /\ main_output = 0
    /\ net_model = NoNetModel

\* A builder is called: its parameters are bound (lines 23-29, 146-149).
NetInit ==
    /\ net_pc = "input"
    /\ net_call \in NetCalls
    /\ nb_first = BindFirstPath(net_call)
    /\ nb_second = BindSecondPath(net_call)
    /\ blocks_done = 0
    /\ layers = <<>>
    /\ acc_tensor = 0
    /\ aux_output = 0
    /\ main_output = 0
    /\ net_model = NoNetModel

\* Lines 43-45, 154-156: input_tensor = Input(...); acc_tensor = input_tensor.
NetInput ==
    /\ net_pc = "input"
    /\ layers' = <<Layer("Input", <<>>, "", 0, "")>>
    /\ acc_tensor' = 1
    /\ net_pc' = "stem"
    /\ UNCHANGED <<net_call, nb_first, nb_second, blocks_done, aux_output,
                   main_output, net_model, trainVars, splitVars, genVars>>

\* Lines 47-53, 158-163: the stem block.
NetStem ==
    /\ net_pc = "stem"
    /\ layers' = Append(layers, StemCnnBlock(acc_tensor, TRUE, net_call.freeze_batch))
    /\ acc_tensor' = Len(layers) + 1
    /\ blocks_done' = 0
    /\ net_pc' = "first_path"
    /\ UNCHANGED <<net_call, nb_first, nb_second, aux_output, main_output,
                   net_model, trainVars, splitVars, genVars>>

\* Lines 56-59, 166-168: one iteration of the first path's loop.
FirstPathBlock ==
    /\ net_pc = "first_path"
    /\ blocks_done < nb_first
    /\ layers' = ResidualBlock(layers, acc_tensor, net_call.freeze_batch)
    /\ acc_tensor' = Len(layers) + 2
    /\ blocks_done' = blocks_done + 1
    /\ UNCHANGED <<net_pc, net_call, nb_first, nb_second, aux_output,
                   main_output, net_model, trainVars, splitVars, genVars>>

\* Lines 61-66, 170-173: after the loop, the average pool and the aux head.
AuxHead ==
    /\ net_pc = "first_path"
    /\ blocks_done >= nb_first
    /\ LET g == Append(layers, Layer("AveragePooling2D", <<acc_tensor>>,
                                     "", 0, ""))
       IN  /\ acc_tensor' = Len(g)
           /\ layers' = Output(g, Len(g), "aux_output")
           /\ aux_output' = Len(Output(g, Len(g), "aux_output"))
    /\ blocks_done' = 0
    /\ net_pc' = "second_path"
    /\ UNCHANGED <<net_call, nb_first, nb_second, main_output, net_model,
                   trainVars, splitVars, genVars>>

\* Lines 69-72, 176-178: one iteration of the second path's loop.
SecondPathBlock ==
    /\ net_pc = "second_path"
    /\ blocks_done < nb_second
    /\ layers' = ResidualBlock(layers, acc_tensor, net_call.freeze_batch)
    /\ acc_tensor' = Len(layers) + 2
    /\ blocks_done' = blocks_done + 1
    /\ UNCHANGED <<net_pc, net_call, nb_first, nb_second, aux_output,
                   main_output, net_model, trainVars, splitVars, genVars>>

\* Lines 74-79, 180-183: after the loop, the average pool and the main head.
MainHead ==
    /\ net_pc = "second_path"
    /\ blocks_done >= nb_second
    /\ LET g == Append(layers, Layer("AveragePooling2D", <<acc_tensor>>,
                                     "", 0, ""))
       IN  /\ acc_tensor' = Len(g)
           /\ layers' = Output(g, Len(g), "main_output")
           /\ main_output' = Len(Output(g, Len(g), "main_output"))
    /\ net_pc' = "model"
    /\ UNCHANGED <<net_call, nb_first, nb_second, blocks_done, aux_output,
                   net_model, trainVars, splitVars, genVars>>

\* Lines 81-89, 184-191: Model(input_tensor, [main_output, aux_output]),
\* compiled and returned.
NetModel ==
    /\ net_pc = "model"
    /\ net_model' = [input |-> 1, outputs |-> <<main_output, aux_output>>]
    /\ net_pc' = "done"
    /\ UNCHANGED <<net_call, nb_first, nb_second, blocks_done, layers,
                   acc_tensor, aux_output, main_output, trainVars,
                   splitVars, genVars>>

----------------------------------------------------------------------------
(* Specifications *)

\* The retry loop of train_cycle and what follows it.
Init == TrainInit /\ SplitIdle /\ GenIdle /\ NetIdle

Next ==
    \/ BuildModel
    \/ TrainBegin
    \/ EpochEnd
    \/ FitReturn
    \/ CheckRestart
    \/ Evaluate
    \/ WriteMetrics

Spec == Init /\ [][Next]_vars

\* The stratified split on its own.
InitSplit == SplitInit /\ TrainIdle /\ GenIdle /\ NetIdle

NextSplit ==
    \/ GroupStep
    \/ GroupDone
    \/ SplitStep
    \/ SelectSubsets

SpecSplit == InitSplit /\ [][NextSplit]_vars

\* One multioutput_gen generator and its consumer.
InitGen == GenInit /\ TrainIdle /\ SplitIdle /\ NetIdle

NextGen ==
    \/ GenRequest
    \/ GenPull
    \/ GenYield

SpecGen == InitGen /\ [][NextGen]_vars

\* One call of a network builder.
InitNet == NetInit /\ TrainIdle /\ SplitIdle /\ GenIdle

NextNet ==
    \/ NetInput
    \/ NetStem
    \/ FirstPathBlock
    \/ AuxHead
    \/ SecondPathBlock
    \/ MainHead
    \/ NetModel

SpecNet == InitNet /\ [][NextNet]_vars

----------------------------------------------------------------------------
(* Properties of the training cycle, checked under Spec *)

\* train_cycle is past its retry loop.
PastLoop == pc \in {"evaluate", "write", "done"}

\* The number a "%f" field reads back as, in tenths.
ParseF(f) == IF f.nan THEN NaN ELSE f.int * 10 + f.frac \div 100000

\* C1: the retry loop is left only after an Attempt that used up its epoch
\* budget with neither monitor's triggered flag set, so no Attempt in which a
\* monitor triggered is evaluated on the test set or written to the metrics
\* file.
C1_AcceptedOnlyUntriggered ==
    PastLoop =>
        /\ Len(history) = EPOCHS
        /\ ~restarter_1.stopped
        /\ ~restarter_2.stopped

\* C2: for each monitor with target epoch E and threshold T, once epoch E of
\* the Attempt has ended the flag is set if the metric of epoch E was
\* strictly greater than T, and from then to the end of the Attempt it stays
\* so; it is clear all through the Attempt if that metric was T or less.
C2_FlagFollowsTargetEpoch ==
    \A r \in {restarter_1, restarter_2} :
        LET E == r.check_epoch_nb
            T == r.value
        IN  Len(history) >= E =>
              LET metric == history[E][r.monitor]
              IN  /\ (metric # NaN /\ metric > T) => r.stopped
                  /\ (metric # NaN /\ metric <= T) => ~r.stopped

\* C2 witness: monitor 1's flag, set at its target epoch by a loss above the
\* threshold, is still set when fit_generator has returned.
C2_Witness ==
    /\ pc = "check"
    /\ restarter_1.stopped
    /\ Len(history) = RESTARTER_PATIENCE_1
    /\ history[RESTARTER_PATIENCE_1]["main_output_loss"]
         = THRESHOLD_LOSS_VALUE_1 + 1

\* C5: nothing is evaluated or written while the retry loop runs; the test
\* evaluation happens once, after the loop, on the accepted Attempt's model,
\* and the metrics file is written once, after it; no discarded Attempt's
\* model is ever evaluated.
C5_EvaluateThenWriteOnce ==
    /\ ~PastLoop \/ pc = "evaluate" =>
          io_log = <<>> /\ ~metrics_file.exists /\ eval_result = <<>>
    /\ pc = "write" =>
          /\ io_log = <<[op |-> "evaluate", model |-> Attempt]>>
          /\ ~metrics_file.exists
    /\ pc = "done" =>
          /\ io_log = <<[op |-> "evaluate", model |-> Attempt],
                        [op |-> "write", model |-> Attempt]>>
          /\ metrics_file.exists
    /\ \A i \in 1..Len(io_log) : \A d \in 1..Len(discarded) :
          io_log[i].model # discarded[d].model

\* C5 witness: the cycle has finished after two discarded Attempts.
C5_Witness ==
    pc = "done" /\ Len(discarded) = 2 /\ Len(io_log) = 2

\* C6: the finished metrics file has one line per epoch of the accepted
\* Attempt (the epochs its model was trained for), each of 13 fields: the
\* 1-based epoch number, that epoch's ten values in the fixed order, and the
\* main-head and aux-head test accuracies of the one evaluation.
C6_MetricsFileContent ==
    pc = "done" =>
        /\ model.id = Attempt
        /\ Len(metrics_file.lines) = model.trained
        /\ Len(metrics_file.lines) = Len(history)
        /\ \A i \in 1..Len(metrics_file.lines) :
              LET line == metrics_file.lines[i]
                  keys == <<"loss", "main_output_loss", "aux_output_loss",
                            "main_output_acc", "aux_output_acc", "val_loss",
                            "val_main_output_loss", "val_aux_output_loss",
                            "val_main_output_acc", "val_aux_output_acc">>
              IN  /\ Len(line) = 13
                  /\ line[1] = i
                  /\ \A k \in 1..10 : ParseF(line[k + 1]) = history[i][keys[k]]
                  /\ ParseF(line[12]) = eval_result[4]
                  /\ ParseF(line[13]) = eval_result[6]
                  /\ line[12] = metrics_file.lines[1][12]
                  /\ line[13] = metrics_file.lines[1][13]

\* C6 witness: a file of EPOCHS lines written after a discarded Attempt, with
\* test accuracies that differ between the heads.
C6_Witness ==
    /\ pc = "done"
    /\ Len(discarded) = 1
    /\ Len(metrics_file.lines) = EPOCHS
    /\ eval_result[4] # eval_result[6]

\* C7: the accepted Attempt is the first that ran its full epoch budget:
\* its history has EPOCHS entries, every Attempt before it was cut short by
\* a monitor, and an Attempt in which no monitor triggers is never followed
\* by another.
C7_FirstFullAttemptAccepted ==
    /\ PastLoop => Len(history) = EPOCHS
    /\ \A d \in 1..Len(discarded) :
          /\ discarded[d].epochs < EPOCHS
          /\ discarded[d].stopped_1 \/ discarded[d].stopped_2

\* C7 witness: the third Attempt is accepted after two that were cut short.
C7_Witness ==
    pc = "evaluate" /\ Len(discarded) = 2 /\ Len(history) = EPOCHS

\* C8: the loop is left only after an Attempt for which the retry condition
\* (monitor 1 triggered and monitor 2 did not) is false, whatever the number
\* of Attempts before it; while every Attempt so far satisfied it, nothing
\* has been evaluated or written.
C8_NoRetryLimit ==
    /\ PastLoop => ~(restarter_1.stopped /\ ~restarter_2.stopped)
    /\ pc \in {"check", "build"} /\ restarter_1.stopped
          /\ ~restarter_2.stopped =>
          io_log = <<>> /\ ~metrics_file.exists
    /\ Len(discarded) = Attempt - 1

\* C8 witness: as many Attempts as the model builds have all been discarded
\* and the cycle is back at the head of the loop.
C8_Witness ==
    /\ pc = "build"
    /\ Len(discarded) = MaxAttempts
    /\ io_log = <<>>

\* C12: when an Attempt's fit has returned, train_cycle starts another
\* Attempt exactly when monitor 1 triggered and monitor 2 did not; in every
\* other case the loop ends with that Attempt's model and history kept.
C12_RetryDecision ==
    [][pc = "check" =>
         IF restarter_1.stopped /\ ~restarter_2.stopped
         THEN /\ pc' = "build"
              /\ Len(discarded') = Len(discarded) + 1
              /\ discarded'[Len(discarded')].model = model.id
         ELSE /\ pc' = "evaluate"
              /\ discarded' = discarded
              /\ model' = model
              /\ history' = history]_vars

\* C12 witness: after a retried Attempt, an Attempt in which monitor 2
\* triggered has been accepted.
C12_Witness ==
    /\ pc = "evaluate"
    /\ Len(discarded) >= 1
    /\ discarded[1].stopped_1
    /\ ~discarded[1].stopped_2
    /\ restarter_2.stopped

\* fit_generator is running or has just returned.
InAttempt == pc \in {"fit", "check"}

\* C13: a stop is decided only at the end of an epoch and no epoch runs
\* after it: while a monitor's flag is set in an Attempt, the Attempt has
\* completed exactly that monitor's target epoch and the model's stop signal
\* is up; the model has been trained for whole epochs only, as many as the
\* history records; and an Attempt whose fit has returned completed either
\* the full epoch budget or the target epoch of a monitor that triggered.
C13_StopAtEpochBoundary ==
    /\ InAttempt =>
          /\ model.trained = Len(history)
          /\ \A r \in {restarter_1, restarter_2} :
                r.stopped =>
                    Len(history) = r.check_epoch_nb /\ model.stop_training
          /\ model.stop_training =>
                restarter_1.stopped \/ restarter_2.stopped
    /\ pc = "check" \/ PastLoop =>
          \/ Len(history) = EPOCHS
          \/ \E r \in {restarter_1, restarter_2} :
                r.stopped /\ Len(history) = r.check_epoch_nb
    /\ \A d \in 1..Len(discarded) :
          \/ discarded[d].epochs = EPOCHS
          \/ discarded[d].stopped_1
                /\ discarded[d].epochs = RESTARTER_PATIENCE_1
          \/ discarded[d].stopped_2
                /\ discarded[d].epochs = RESTARTER_PATIENCE_2

\* C13 witness: fit has returned after monitor 1 triggered at the end of
\* epoch 10, with ten whole epochs trained.
C13_Witness ==
    /\ pc = "check"
    /\ restarter_1.stopped
    /\ model.stop_training
    /\ model.trained = RESTARTER_PATIENCE_1
    /\ Len(history) = RESTARTER_PATIENCE_1
    /\ RESTARTER_PATIENCE_1 < EPOCHS

\* C14: the two monitors are the objects made before the loop, with their
\* settings unchanged in every Attempt; each flag is clear when an Attempt's
\* first epoch starts, and a flag that is set while an Attempt runs or when
\* its retry decision is taken was set in that Attempt: the Attempt reached
\* the monitor's target epoch with a metric not at or below the threshold.
C14_FlagsResetEachAttempt ==
    /\ [restarter_1 EXCEPT !.stopped = FALSE]
          = RestartCallback(RESTARTER_PATIENCE_1, "main_output_loss",
                            THRESHOLD_LOSS_VALUE_1)
    /\ [restarter_2 EXCEPT !.stopped = FALSE]
          = RestartCallback(RESTARTER_PATIENCE_2, "main_output_loss",
                            THRESHOLD_LOSS_VALUE_2)
    /\ InAttempt =>
          \A r \in {restarter_1, restarter_2} :
              /\ Len(history) < r.check_epoch_nb => ~r.stopped
              /\ r.stopped =>
                    ~FloatLe(history[r.check_epoch_nb][r.monitor], r.value)

\* C14 witness: the retry decision of a later Attempt is taken with monitor
\* 1's flag clear, after an Attempt that was discarded with that flag set.
C14_Witness ==
    /\ pc = "check"
    /\ Len(discarded) >= 1
    /\ discarded[Len(discarded)].stopped_1
    /\ ~restarter_1.stopped
    /\ Len(history) = EPOCHS

\* C15: the end of an epoch whose 1-based number is not a monitor's target
\* epoch leaves that monitor's flag as it was, whatever the epoch's metric
\* is, and the model's stop signal is left as it was unless the epoch is the
\* target epoch of one of the monitors; so monitor 1 first reads the metric
\* at the end of the 10th completed epoch.
C15_OtherEpochsUntouched ==
    [][pc = "fit" /\ Len(history') = Len(history) + 1 =>
         /\ Len(history') # restarter_1.check_epoch_nb =>
               restarter_1' = restarter_1
         /\ Len(history') # restarter_2.check_epoch_nb =>
               restarter_2' = restarter_2
         /\ Len(history') \notin {restarter_1.check_epoch_nb,
                                  restarter_2.check_epoch_nb} =>
               model'.stop_training = model.stop_training]_vars

\* C15 witness: nine epochs of an Attempt have ended, the ninth with a loss
\* above monitor 1's threshold, and neither flag nor the stop signal is set.
C15_Witness ==
    /\ pc = "fit"
    /\ Len(history) = RESTARTER_PATIENCE_1 - 1
    /\ ~FloatLe(history[Len(history)]["main_output_loss"],
                THRESHOLD_LOSS_VALUE_1)
    /\ ~restarter_1.stopped
    /\ ~restarter_2.stopped
    /\ ~model.stop_training

\* C16: the model an Attempt trains was constructed at the start of that
\* Attempt and is untrained when fit begins; the models of the discarded
\* Attempts are pairwise different and none of them is the model of a later
\* Attempt; the model evaluated on the test stream is the one built in the
\* last Attempt.
C16_FreshModelPerAttempt ==
    /\ pc # "build" => model.id = Attempt
    /\ pc = "build" => model.id = Len(discarded)
    /\ pc = "train_begin" => model.trained = 0
    /\ model.trained <= EPOCHS
    /\ \A d \in 1..Len(discarded) :
          /\ pc # "build" => discarded[d].model # model.id
          /\ \A e \in 1..Len(discarded) :
                discarded[d].model = discarded[e].model => d = e
    /\ \A i \in 1..Len(io_log) :
          io_log[i].op = "evaluate" =>
              io_log[i].model = model.id /\ model.id = Len(discarded) + 1

\* C16 witness: the model of the third Attempt has been evaluated, after
\* the models of two discarded Attempts.
C16_Witness ==
    /\ pc = "write"
    /\ Len(discarded) = 2
    /\ discarded[1].model = 1
    /\ discarded[2].model = 2
    /\ model.id = 3
    /\ io_log[1] = [op |-> "evaluate", model |-> 3]

\* The most recently completed epoch of the cycle, as a checkpoint of it
\* would read: an epoch of the current Attempt if it has completed one,
\* otherwise the last epoch of the Attempt discarded last, if any.
LastCompletedEpoch ==
    IF (InAttempt \/ PastLoop) /\ Len(history) >= 1
    THEN [exists |-> TRUE, model |-> model.id, epoch |-> Len(history)]
    ELSE IF Len(discarded) >= 1
    THEN [exists |-> TRUE, model |-> discarded[Len(discarded)].model,
          epoch |-> discarded[Len(discarded)].epochs]
    ELSE NoCheckpoint

\* C17: the one checkpoint file of the cycle is overwritten at the end of
\* every completed epoch of every Attempt, the epoch at which a monitor
\* triggers included: it always holds the model of the most recently
\* completed epoch, and once the metrics file is written it holds the
\* accepted Attempt's model after its last epoch.
C17_CheckpointIsLastEpoch ==
    /\ checkpoint = LastCompletedEpoch
    /\ pc = "done" =>
          /\ checkpoint.exists
          /\ checkpoint.model = Attempt
          /\ checkpoint.epoch = Len(metrics_file.lines)

\* C17 witness: monitor 1 has triggered in the second Attempt and the
\* checkpoint, written by the first Attempt before, holds the second
\* Attempt's model of the trigger epoch.
C17_Witness ==
    /\ pc = "check"
    /\ Len(discarded) = 1
    /\ restarter_1.stopped
    /\ checkpoint = [exists |-> TRUE, model |-> 2,
                     epoch |-> RESTARTER_PATIENCE_1]

\* C18: with check epochs 10 and 100 and an epoch budget of 100 the two
\* flags are never both set: monitor 1's flag ends the Attempt at epoch 10,
\* before monitor 2's check epoch, and monitor 2's flag is only set at epoch
\* 100.  So an Attempt was retried if and only if monitor 1 triggered in it:
\* every discarded Attempt has monitor 1's flag set and monitor 2's clear,
\* the accepted one has monitor 1's flag clear, and an Attempt in which
\* monitor 2 triggered is never discarded.
C18_FlagsNeverBothSet ==
    /\ RESTARTER_PATIENCE_1 < RESTARTER_PATIENCE_2
    /\ RESTARTER_PATIENCE_2 = EPOCHS
    /\ ~(restarter_1.stopped /\ restarter_2.stopped)
    /\ InAttempt /\ restarter_1.stopped =>
          Len(history) < restarter_2.check_epoch_nb
    /\ \A d \in 1..Len(discarded) :
          discarded[d].stopped_1 /\ ~discarded[d].stopped_2
    /\ PastLoop => ~restarter_1.stopped
    /\ pc = "build" /\ Len(discarded) >= 1 => restarter_1.stopped

\* C18 witness: monitor 2 alone triggered in an Attempt, at epoch 100, and
\* the Attempt was accepted, after one in which monitor 1 alone triggered.
C18_Witness ==
    /\ PastLoop
    /\ restarter_2.stopped
    /\ ~restarter_1.stopped
    /\ Len(history) = RESTARTER_PATIENCE_2
    /\ Len(discarded) = 1
    /\ discarded[1].epochs = RESTARTER_PATIENCE_1

----------------------------------------------------------------------------
(* Properties of the stratified split, checked under SpecSplit *)

\* Both index lists are complete and train_y is still the loaded array.
SplitFinished == split_pc = "split" /\ loop_i >= Len(label_indices)

\* The elements of a list.
SeqSet(s) == {s[j] : j \in 1..Len(s)}

\* The zero-based indices of the loaded labels that carry label k.
IndicesWith(k) == {i \in 0..(Len(train_y) - 1) : train_y[i + 1] = k}

\* floor(0.7 * c) for a natural c.
Floor70(c) == (7 * c) \div 10

\* C3: the train and validation index sets are disjoint, their union is
\* 0..n-1, and every label has floor(0.7 * count) of its indices in the
\* train set.
C3_StratifiedSplit ==
    SplitFinished =>
        /\ SeqSet(train_indices) \cap SeqSet(val_indices) = {}
        /\ SeqSet(train_indices) \cup SeqSet(val_indices)
             = 0..(Len(train_y) - 1)
        /\ \A k \in Labels :
              Cardinality(SeqSet(train_indices) \cap IndicesWith(k))
                = Floor70(Cardinality(IndicesWith(k)))

\* C9: for every label the train indices are the first floor(0.7 * count)
\* indices carrying it, in ascending position, and the validation indices
\* are the rest, so each train index of a label precedes each of its
\* validation indices.
C9_SplitKeepsOrder ==
    SplitFinished =>
        \A k \in Labels :
            LET I == IndicesWith(k)
                T == SeqSet(train_indices) \cap I
                V == SeqSet(val_indices) \cap I
            IN  /\ T = {i \in I :
                          Cardinality({j \in I : j < i}) < Floor70(Cardinality(I))}
                /\ V = I \ T
                /\ \A t \in T : \A v \in V : t < v
                /\ \A a, b \in 1..Len(train_indices) :
                      a < b /\ train_indices[a] \in I /\ train_indices[b] \in I
                          => train_indices[a] < train_indices[b]

----------------------------------------------------------------------------
(* Properties of multioutput_gen, checked under SpecGen *)

\* C4: the adapted batches are the upstream batches in order, the k-th with
\* the k-th image batch and a list of nb_of_outputs entries all equal to the
\* k-th label batch; one is yielded per request until the upstream ends; an
\* upstream batch is pulled only for a request, so pulls never run more than
\* one ahead of yields and the frame holds at most one batch.
C4_AdapterStreams ==
    /\ Len(gen_out) <= Len(gen_source)
    /\ \A k \in 1..Len(gen_out) :
          /\ Len(gen_out[k]) = 2
          /\ gen_out[k][1] = gen_source[k][1]
          /\ Len(gen_out[k][2]) = nb_of_outputs
          /\ \A j \in 1..nb_of_outputs : gen_out[k][2][j] = gen_source[k][2]
    /\ gen_pos <= gen_requests
    /\ gen_pos - Len(gen_out) \in {0, 1}
    /\ Len(gen_xy) <= 1
    /\ gen_pc = "suspended" => Len(gen_out) = gen_requests
    /\ gen_pc = "finished" =>
          Len(gen_out) = Len(gen_source) /\ gen_requests = Len(gen_out) + 1

\* C4 witness: with two outputs, three differing upstream batches have been
\* asked for and yielded.
C4_Witness ==
    /\ gen_pc = "suspended"
    /\ nb_of_outputs = 2
    /\ Len(gen_out) = 3
    /\ gen_requests = 3
    /\ gen_source[1] # gen_source[2]
    /\ gen_source[2][2] # gen_source[3][2]

----------------------------------------------------------------------------
(* Properties of the network builders, checked under SpecNet *)

\* A builder has returned from a call that left both block counts out.
BuiltWithDefaults ==
    net_pc = "done" /\ net_call.first = Omitted /\ net_call.second = Omitted

\* The residual blocks (add layers) the aux head's path runs through, and
\* those between the aux head and the main head.
FirstPathBlocks ==
    Cardinality({t \in 1..Len(layers) :
                    layers[t].op = "add" /\ t < aux_output})
SecondPathBlocks ==
    Cardinality({t \in 1..Len(layers) :
                    layers[t].op = "add" /\ t > aux_output /\ t < main_output})

\* C10 as stated: with default arguments the plain builder uses 4 and 4
\* residual blocks, the dropout builder 3 in its first path and 4 in its
\* second.
C10_DefaultsAsStated ==
    BuiltWithDefaults =>
        IF net_call.builder = "plain"
        THEN FirstPathBlocks = 4 /\ SecondPathBlocks = 4
        ELSE FirstPathBlocks = 3 /\ SecondPathBlocks = 4

\* C10 amended: with default arguments the plain builder uses 4 and 4
\* residual blocks, the dropout builder 4 in its first path and 3 in its
\* second.
C10_Defaults ==
    BuiltWithDefaults =>
        IF net_call.builder = "plain"
        THEN FirstPathBlocks = 4 /\ SecondPathBlocks = 4
        ELSE FirstPathBlocks = 4 /\ SecondPathBlocks = 3

\* C10 witness: the dropout builder has returned from a call with defaults.
C10_Witness ==
    BuiltWithDefaults /\ net_call.builder = "dropout" /\ Len(net_model.outputs) = 2

\* The feature map a head reads: back from the head's last layer to its
\* GlobalAveragePooling2D, whose input it is.
RECURSIVE HeadSource(_)
HeadSource(t) ==
    IF layers[t].op = "GlobalAveragePooling2D" THEN layers[t].inputs[1]
    ELSE HeadSource(layers[t].inputs[1])

\* Tensor t is the output of a residual block: the sum of the block's input
\* and of the convolution sub-block applied to that input.
IsResidualBlock(t) ==
    /\ layers[t].op = "add"
    /\ Len(layers[t].inputs) = 2
    /\ LET a == layers[t].inputs[1]
           r == layers[t].inputs[2]
       IN  /\ a # r
           /\ layers[r].op = "stem_cnn_block"
           /\ layers[r].inputs = <<a>>

\* Back from tensor t through the residual blocks that end at t: how many
\* there are, and the tensor the first of them reads.
RECURSIVE BlocksBack(_)
BlocksBack(t) ==
    IF IsResidualBlock(t) THEN 1 + BlocksBack(layers[t].inputs[1]) ELSE 0
RECURSIVE ChainBase(_)
ChainBase(t) ==
    IF IsResidualBlock(t) THEN ChainBase(layers[t].inputs[1]) ELSE t

\* Tensor t is an 8-way softmax layer of the given name.
IsSoftmaxHead(t, name) ==
    /\ layers[t].op = "Dense"
    /\ layers[t].name = name
    /\ layers[t].units = 8
    /\ layers[t].activation = "softmax"

\* C11: a built network has exactly two outputs, main_output then
\* aux_output, each an 8-way softmax; the auxiliary head reads the stem's
\* output after exactly nb_first residual blocks and one average pool, the
\* main head reads that pool's output after nb_second further residual
\* blocks and a second average pool; every add layer sums a block's input and
\* the convolution sub-block of that input.
C11_TwoHeadedGraph ==
    net_pc = "done" =>
        /\ Len(net_model.outputs) = 2
        /\ IsSoftmaxHead(net_model.outputs[1], "main_output")
        /\ IsSoftmaxHead(net_model.outputs[2], "aux_output")
        /\ \A t \in 1..Len(layers) :
               /\ layers[t].op = "add" => IsResidualBlock(t)
               /\ layers[t].name # "" => t \in {net_model.outputs[1],
                                                net_model.outputs[2]}
        /\ LET aux_pool == HeadSource(net_model.outputs[2])
               main_pool == HeadSource(net_model.outputs[1])
               aux_in == layers[aux_pool].inputs[1]
               main_in == layers[main_pool].inputs[1]
           IN  /\ layers[aux_pool].op = "AveragePooling2D"
               /\ BlocksBack(aux_in) = nb_first
               /\ layers[ChainBase(aux_in)].op = "stem_cnn_block_pooling"
               /\ layers[ChainBase(aux_in)].inputs = <<net_model.input>>
               /\ layers[net_model.input].op = "Input"
               /\ layers[main_pool].op = "AveragePooling2D"
               /\ main_pool # aux_pool
               /\ BlocksBack(main_in) = nb_second
               /\ ChainBase(main_in) = aux_pool

\* C11 witness: a network is built with no block in its first path and the
\* most blocks in its second.
C11_Witness ==
    /\ net_pc = "done"
    /\ nb_first = 0
    /\ nb_second = MaxBlocks
    /\ Len(net_model.outputs) = 2
    /\ BlocksBack(layers[HeadSource(net_model.outputs[1])].inputs[1]) = MaxBlocks

====
